---- MODULE Spec2Model ----
(***************************************************************************)
(* Model of the e-mail classification service (src/nlp.py, src/main.py).   *)
(*                                                                         *)
(* Texts are sequences of one-character strings.  Scores are fixed-point   *)
(* integers in units of 1/100000 (Unit = 1.0); the sub-score multipliers   *)
(* ("boosts") are integers in hundredths (100 = 1.0) and the combined      *)
(* multiplier is an integer in thousandths (1000 = 1.0); a score that lies *)
(* half way between two hundredths is rendered as either neighbour.  The   *)
(* two sub-scorers called on their own return the Python float (IEEE 754   *)
(* binary64) they compute, held exactly as a multi-limb integer.           *)
(*                                                                         *)
(* One state machine run is one call of one entry point: Init draws the    *)
(* process-wide state left by module import (pipeline, genai_client) and   *)
(* the call with its arguments; the action of that entry point executes    *)
(* the whole call, choosing the answers of the external collaborators      *)
(* (trained model, reply generator, file reader) nondeterministically.     *)
(***************************************************************************)
EXTENDS Integers, Sequences, FiniteSets, TLC

VARIABLES
    pipeline,       \* nlp.pipeline: "None" or "Pipeline" (set once by load_model at import)
    genai_client,   \* nlp.genai_client: "None" or "Client" (set once at import)
    call,           \* the entry point invoked and its arguments
    pc,             \* "called" before the call runs, "returned" after it
    ret,            \* what the call returned
    obs             \* what happened inside the call (model invocations, exceptions, path)

vars == <<pipeline, genai_client, call, pc, ret, obs>>

-----------------------------------------------------------------------------
(* Fixed-point scale and bounds of the input space *)

Unit == 1000 * 100          \* the score 1.0
Cent == Unit \div 100       \* the score 0.01

MaxWords == 201             \* longest clean_text drawn, in words
MaxKeywords == 3            \* most keyword tokens put into a drawn clean_text

-----------------------------------------------------------------------------
(* Characters and strings *)

Min(a, b) == IF a < b THEN a ELSE b
Max(a, b) == IF a > b THEN a ELSE b

Whitespace == {" ", "\t", "\n", "\r"}
IsSpace(c) == c \in Whitespace

UpperSeq == <<"A","B","C","D","E","F","G","H","I","J","K","L","M","N","O","P","Q","R","S","T","U","V","W","X","Y","Z",
              "Á","Â","Ã","À","É","Ê","Í","Ó","Ô","Õ","Ú","Ç">>
LowerSeq == <<"a","b","c","d","e","f","g","h","i","j","k","l","m","n","o","p","q","r","s","t","u","v","w","x","y","z",
              "á","â","ã","à","é","ê","í","ó","ô","õ","ú","ç">>
UpperChars == {UpperSeq[i] : i \in 1..Len(UpperSeq)}
LowerTable == [c \in UpperChars |-> LowerSeq[CHOOSE i \in 1..Len(UpperSeq) : UpperSeq[i] = c]]

\* str.isupper() of one character
isupper(c) == c \in UpperChars
\* str.lower()
lower(s) == SubSeq([i \in 1..Len(s) |-> IF s[i] \in UpperChars THEN LowerTable[s[i]] ELSE s[i]], 1, Len(s))

\* str.upper()
upper(s) ==
    SubSeq([i \in 1..Len(s) |->
              IF \E k \in 1..Len(LowerSeq) : LowerSeq[k] = s[i]
              THEN UpperSeq[CHOOSE k \in 1..Len(LowerSeq) : LowerSeq[k] = s[i]]
              ELSE s[i]], 1, Len(s))

\* str.strip(): leading and trailing whitespace removed
strip(s) ==
    LET n == Len(s)
        lead == CHOOSE k \in 0..n :
                    /\ \A j \in 1..k : IsSpace(s[j])
                    /\ (k = n \/ ~IsSpace(s[k + 1]))
        trail == CHOOSE k \in 0..n :
                    /\ \A j \in (n - k + 1)..n : IsSpace(s[j])
                    /\ (k = n \/ ~IsSpace(s[n - k]))
    IN  IF lead = n THEN <<>> ELSE SubSeq(s, lead + 1, n - trail)

\* str.split() with no argument: the maximal runs of non-whitespace characters, in order
RECURSIVE split(_)
split(s) ==
    IF Len(s) = 0 THEN <<>>
    ELSE IF Len(s) = 1 THEN (IF IsSpace(s[1]) THEN <<>> ELSE <<s>>)
    ELSE LET m == Len(s) \div 2
             L == split(SubSeq(s, 1, m))
             R == split(SubSeq(s, m + 1, Len(s)))
         IN  IF ~IsSpace(s[m]) /\ ~IsSpace(s[m + 1])
             THEN SubSeq(L, 1, Len(L) - 1) \o <<L[Len(L)] \o R[1]>> \o Tail(R)
             ELSE L \o R

\* " ".join(words)
RECURSIVE join(_)
join(ws) ==
    IF ws = <<>> THEN <<>>
    ELSE IF Len(ws) = 1 THEN ws[1]
    ELSE LET m == Len(ws) \div 2
         IN  join(SubSeq(ws, 1, m)) \o <<" ">> \o join(SubSeq(ws, m + 1, Len(ws)))

\* Python's `sub in s` for strings
contains(s, sub) ==
    \E i \in 1..(Len(s) - Len(sub) + 1) : \A j \in 1..Len(sub) : s[i + j - 1] = sub[j]

\* str.count(c) for a one-character c
count(s, c) == Cardinality({i \in 1..Len(s) : s[i] = c})

\* s[:n]
prefix(s, n) == SubSeq(s, 1, Min(n, Len(s)))

\* n copies of s, one after the other
Rep(n, s) == [i \in 1..(n * Len(s)) |-> s[((i - 1) % Len(s)) + 1]]

-----------------------------------------------------------------------------
(* Python floats (IEEE 754 binary64) *)

\* A float v with 1/64 <= v < 4 is held exactly as the integer v * 2^60,
\* written in four limbs of 16 bits, least significant first.  The sub-scores
\* are sums and differences of a few literals, all within this range.
Base == 2^16

big_add(a, b) ==
    LET s1 == a[1] + b[1]
        s2 == a[2] + b[2] + (s1 \div Base)
        s3 == a[3] + b[3] + (s2 \div Base)
        s4 == a[4] + b[4] + (s3 \div Base)
    IN  <<s1 % Base, s2 % Base, s3 % Base, s4>>

\* a - b for a >= b
big_sub(a, b) ==
    LET d1 == a[1] - b[1]
        d2 == a[2] - b[2] + (d1 \div Base)
        d3 == a[3] - b[3] + (d2 \div Base)
        d4 == a[4] - b[4] + (d3 \div Base)
    IN  <<d1 % Base, d2 % Base, d3 % Base, d4>>

big_lt(a, b) ==
    \/ a[4] < b[4]
    \/ a[4] = b[4] /\ a[3] < b[3]
    \/ a[4] = b[4] /\ a[3] = b[3] /\ a[2] < b[2]
    \/ a[4] = b[4] /\ a[3] = b[3] /\ a[2] = b[2] /\ a[1] < b[1]

\* The spacing of the binary64 values around x (53 significant bits), in
\* units of 2^-60
ulp(x) ==
    IF x[4] >= 8192 THEN 512
    ELSE IF x[4] >= 4096 THEN 256
    ELSE IF x[4] >= 2048 THEN 128
    ELSE IF x[4] >= 1024 THEN 64
    ELSE IF x[4] >= 512 THEN 32
    ELSE IF x[4] >= 256 THEN 16
    ELSE IF x[4] >= 128 THEN 8
    ELSE 4

\* Round to nearest, ties to even: the binary64 value of the exact result x;
\* `sticky` tells that the exact result lies strictly above x, by less than 2^-60
round_binary64(x, sticky) ==
    LET q == ulp(x)
        r == x[1] % q
        down == <<x[1] - r, x[2], x[3], x[4]>>
        up == \/ 2 * r > q
              \/ 2 * r = q /\ (sticky \/ (x[1] \div q) % 2 = 1)
    IN  IF up THEN big_add(down, <<q, 0, 0, 0>>) ELSE down

\* The float of a decimal literal of h hundredths (0.05 is float_literal(5))
float_literal(h) ==
    LET n4 == 4096 * h
        r4 == n4 % 100
        n3 == r4 * Base
        r3 == n3 % 100
        n2 == r3 * Base
        r2 == n2 % 100
        n1 == r2 * Base
    IN  round_binary64(<<n1 \div 100, n2 \div 100, n3 \div 100, n4 \div 100>>, n1 % 100 # 0)

\* a + b and a - b of floats
float_add(a, b) == round_binary64(big_add(a, b), FALSE)
float_sub(a, b) == round_binary64(big_sub(a, b), FALSE)

\* boost += 0.xx, boost -= 0.xx, or no statement, for an adjustment of adj hundredths
adjust(boost, adj) ==
    IF adj > 0 THEN float_add(boost, float_literal(adj))
    ELSE IF adj < 0 THEN float_sub(boost, float_literal(-adj))
    ELSE boost

\* Variant: the limits written for a scale of percent, max(50, min(x, 150))
float_clamp_percent(x, lo, hi) ==
    LET lo100 == <<0, 0, 0, lo[4] * 100>>
        hi100 == <<0, 0, 0, hi[4] * 100>>
        m == IF big_lt(hi100, x) THEN hi100 ELSE x
    IN  IF big_lt(m, lo100) THEN lo100 ELSE m

\* max(lo, min(x, hi)) of floats
float_clamp(x, lo, hi) ==
    LET m == IF big_lt(hi, x) THEN hi ELSE x
    IN  IF big_lt(m, lo) THEN lo ELSE m

\* f"{boost:.2f}": the float rounded to hundredths, as the number of hundredths
format_boost_2f(d) ==
    LET p1 == d[1] * 100
        p2 == d[2] * 100 + (p1 \div Base)
        p3 == d[3] * 100 + (p2 \div Base)
        p4 == d[4] * 100 + (p3 \div Base)
        whole == p4 \div 4096
        frac == <<p1 % Base, p2 % Base, p3 % Base, p4 % 4096>>
        half == <<0, 0, 0, 2048>>
    IN  IF big_lt(half, frac) THEN whole + 1
        ELSE IF frac = half /\ whole % 2 = 1 THEN whole + 1
        ELSE whole

-----------------------------------------------------------------------------
(* Words used by the code *)

w_urgente == <<"u","r","g","e","n","t","e">>
w_suporte == <<"s","u","p","o","r","t","e">>
w_erro == <<"e","r","r","o">>
w_bug == <<"b","u","g">>
w_problema == <<"p","r","o","b","l","e","m","a">>
w_solicitacao == <<"s","o","l","i","c","i","t","a","ç","ã","o">>
w_informacao == <<"i","n","f","o","r","m","a","ç","ã","o">>
w_status == <<"s","t","a","t","u","s">>
w_duvida == <<"d","ú","v","i","d","a">>
w_questao == <<"q","u","e","s","t","ã","o">>
w_reuniao == <<"r","e","u","n","i","ã","o">>
w_aprovacao == <<"a","p","r","o","v","a","ç","ã","o">>
w_acesso == <<"a","c","e","s","s","o">>
w_integracao == <<"i","n","t","e","g","r","a","ç","ã","o">>
w_implementacao == <<"i","m","p","l","e","m","e","n","t","a","ç","ã","o">>
w_feedback == <<"f","e","e","d","b","a","c","k">>
w_relatorio == <<"r","e","l","a","t","ó","r","i","o">>
w_correcao == <<"c","o","r","r","e","ç","ã","o">>
w_alteracao == <<"a","l","t","e","r","a","ç","ã","o">>
w_backup == <<"b","a","c","k","u","p">>
w_dados == <<"d","a","d","o","s">>
w_projeto == <<"p","r","o","j","e","t","o">>
w_prazo == <<"p","r","a","z","o">>
w_ajuda == <<"a","j","u","d","a">>

\* nlp.py: the fallback stop-word list
_stop_words ==
    { <<"d","e">>, <<"d","a">>, <<"d","o">>, <<"e","m">>, <<"u","m">>, <<"u","m","a">>,
      <<"p","a","r","a">>, <<"c","o","m">>, <<"é">>, <<"e">>, <<"o">>, <<"a">>, <<"o","s">>,
      <<"a","s">>, <<"n","o">>, <<"n","a">>, <<"p","o","r">>, <<"s","e">>, <<"q","u","e">>,
      <<"a","o">>, <<"à">>, <<"e","s","t","e">>, <<"e","s","s","e">>,
      <<"a","q","u","e","l","e">> }

\* classify_text: productive_keywords
productive_keywords ==
    { w_urgente, w_suporte, w_erro, w_bug, w_problema, w_solicitacao,
      w_informacao, w_status, w_duvida, w_questao, w_reuniao, w_aprovacao,
      w_acesso, w_integracao, w_implementacao, w_feedback, w_relatorio,
      w_correcao, w_alteracao, w_backup, w_dados, w_projeto, w_prazo }

-----------------------------------------------------------------------------
(* classify_text *)

\* What the trained model does when it is asked: predict() and predict_proba()
\* return a class and the larger class probability, or one of them raises.
ModelOutcomes ==
    [raises : {"none"}, prediction : {0, 1}, proba : {50 * Cent, 65 * Cent, 80 * Cent, 100 * Cent}]
    \cup [raises : {"predict", "predict_proba"}, prediction : {0}, proba : {50 * Cent}]
\* The model is not asked
NoModelAnswer == [raises |-> "not_called", prediction |-> 0, proba |-> 0]

\* Variant: the band limits taken inclusive
max_confidence_inclusive(word_count) ==
    IF word_count <= 50 THEN 60 * Cent
    ELSE IF word_count <= 100 THEN 70 * Cent
    ELSE IF word_count <= 200 THEN 85 * Cent
    ELSE 100 * Cent

\* The confidence ceiling of the word-count band
max_confidence(word_count) ==
    IF word_count < 50 THEN 60 * Cent
    ELSE IF word_count < 100 THEN 70 * Cent
    ELSE IF word_count < 200 THEN 85 * Cent
    ELSE 100 * Cent

\* Variant: one keyword is enough in every band
heuristic_one_keyword(word_count, productive_count) ==
    IF word_count < 30 THEN [category |-> "Improdutivo", score |-> 20 * Cent]
    ELSE IF word_count < 50 THEN
        [category |-> IF productive_count = 0 THEN "Improdutivo" ELSE "Produtivo",
         score |-> IF productive_count = 0 THEN 30 * Cent ELSE 50 * Cent]
    ELSE IF word_count < 100 THEN
        [category |-> IF productive_count = 0 THEN "Improdutivo" ELSE "Produtivo",
         score |-> IF productive_count = 0 THEN 40 * Cent ELSE 60 * Cent]
    ELSE IF word_count < 200 THEN
        [category |-> IF productive_count = 0 THEN "Improdutivo" ELSE "Produtivo",
         score |-> IF productive_count = 0 THEN 60 * Cent ELSE 75 * Cent]
    ELSE
        [category |-> "Produtivo",
         score |-> IF productive_count = 0 THEN 70 * Cent ELSE 90 * Cent]

\* Variant: the two scores of the band 50..99 exchanged
heuristic_swapped_scores(word_count, productive_count) ==
    IF word_count < 30 THEN [category |-> "Improdutivo", score |-> 20 * Cent]
    ELSE IF 30 <= word_count /\ word_count < 50 THEN
        IF productive_count >= 2
        THEN [category |-> "Produtivo", score |-> 50 * Cent]
        ELSE [category |-> "Improdutivo", score |-> 30 * Cent]
    ELSE IF 50 <= word_count /\ word_count < 100 THEN
        [category |-> IF productive_count = 0 THEN "Improdutivo" ELSE "Produtivo",
         score |-> IF productive_count = 0 THEN 60 * Cent ELSE 40 * Cent]
    ELSE IF 100 <= word_count /\ word_count < 200 THEN
        [category |-> IF productive_count = 0 THEN "Improdutivo" ELSE "Produtivo",
         score |-> IF productive_count = 0 THEN 60 * Cent ELSE 75 * Cent]
    ELSE
        [category |-> "Produtivo",
         score |-> IF productive_count = 0 THEN 70 * Cent ELSE 90 * Cent]

\* The length/keyword heuristic: (category, score) from the word count and the
\* number of tokens that are productive keywords
heuristic(word_count, productive_count) ==
    IF word_count < 30 THEN [category |-> "Improdutivo", score |-> 20 * Cent]
    ELSE IF 30 <= word_count /\ word_count < 50 THEN
        IF productive_count >= 2
        THEN [category |-> "Produtivo", score |-> 50 * Cent]
        ELSE [category |-> "Improdutivo", score |-> 30 * Cent]
    ELSE IF 50 <= word_count /\ word_count < 100 THEN
        [category |-> IF productive_count = 0 THEN "Improdutivo" ELSE "Produtivo",
         score |-> IF productive_count = 0 THEN 40 * Cent ELSE 60 * Cent]
    ELSE IF 100 <= word_count /\ word_count < 200 THEN
        [category |-> IF productive_count = 0 THEN "Improdutivo" ELSE "Produtivo",
         score |-> IF productive_count = 0 THEN 60 * Cent ELSE 75 * Cent]
    ELSE
        [category |-> "Produtivo",
         score |-> IF productive_count = 0 THEN 70 * Cent ELSE 90 * Cent]

\* Variant: only the empty string is short-circuited
is_blank_empty_only(clean_text) == clean_text = <<>>

\* Whether the empty-text short circuit of classify_text is taken
is_blank(clean_text) == clean_text = <<>> \/ Len(strip(clean_text)) = 0

\* Variant: the threshold off by one
is_too_short_below_two(word_count) == word_count < 2

\* Whether the very-short-text short circuit is taken
is_too_short(word_count) == word_count < 3

\* The exception a failing model call raises
model_error(m) == IF m.raises = "predict" THEN "NotFittedError" ELSE "AttributeError"

\* Variant: a handler that names one exception type
model_error_caught_value_error(exc) == exc = "ValueError"

\* except Exception around the model calls: which exceptions it catches
model_error_caught(exc) == TRUE

\* classify_text(clean_text) with the module's pipeline `pl`: the results the
\* call can produce, one for each answer of the trained model.  Each result is
\* the returned pair, the model methods invoked in order, the path taken, the
\* model's answer and the exception that propagates to the caller.
classify_text(clean_text, pl) ==
    IF is_blank(clean_text)
    THEN {[category |-> "Improdutivo", score |-> 0, invoked |-> <<>>, path |-> "empty",
           model |-> NoModelAnswer, escaped |-> "none"]}
    ELSE
    LET words == split(clean_text)
        word_count == Len(words)
    IN  IF is_too_short(word_count)
        THEN {[category |-> "Improdutivo", score |-> 10 * Cent, invoked |-> <<>>,
               path |-> "short", model |-> NoModelAnswer, escaped |-> "none"]}
        ELSE
        LET productive_count ==
                Cardinality({i \in 1..word_count : words[i] \in productive_keywords})
            h == heuristic(word_count, productive_count)
            answer(m) ==
                IF m.raises = "none"
                THEN [category |-> IF m.prediction = 1 THEN "Produtivo" ELSE "Improdutivo",
                      score |-> Min(m.proba, max_confidence(word_count)),
                      invoked |-> <<"predict", "predict_proba">>, path |-> "model",
                      model |-> m, escaped |-> "none"]
                ELSE IF model_error_caught(model_error(m))
                THEN [category |-> h.category, score |-> h.score,
                      invoked |-> IF m.raises = "predict" THEN <<"predict">>
                                  ELSE <<"predict", "predict_proba">>,
                      path |-> "heuristic", model |-> m, escaped |-> "none"]
                ELSE [category |-> "", score |-> 0,
                      invoked |-> IF m.raises = "predict" THEN <<"predict">>
                                  ELSE <<"predict", "predict_proba">>,
                      path |-> "raised", model |-> m, escaped |-> model_error(m)]
        IN  IF pl # "None"
            THEN {answer(m) : m \in ModelOutcomes}
            ELSE {[category |-> h.category, score |-> h.score, invoked |-> <<>>,
                   path |-> "heuristic", model |-> NoModelAnswer, escaped |-> "none"]}

-----------------------------------------------------------------------------
(* calculate_subject_confidence_boost *)

professional_words ==
    { w_urgente, w_suporte, w_erro, w_problema, w_solicitacao,
      w_informacao, w_status, w_duvida, w_reuniao, w_aprovacao,
      w_projeto, w_prazo, <<"c","o","n","t","a","t","o">>, w_feedback, w_relatorio }

s_at == <<"@">>
s_dot == <<".">>
s_gmail == <<"g","m","a","i","l",".","c","o","m">>
s_hotmail == <<"h","o","t","m","a","i","l",".","c","o","m">>
s_yahoo == <<"y","a","h","o","o",".","c","o","m">>
s_empresa == <<"e","m","p","r","e","s","a">>
s_company == <<"c","o","m","p","a","n","y">>
s_corp == <<"c","o","r","p">>
s_inc == <<"i","n","c">>

\* max(lo, min(x, hi))
clamp(x, lo, hi) == Max(lo, Min(x, hi))

\* The subject adjustment (hundredths)
subject_adjustment(user_subject) ==
    IF user_subject = <<>> \/ strip(user_subject) = <<>> THEN -5
    ELSE IF Len(user_subject) < 5 THEN -10
    ELSE IF Len(user_subject) > 100 THEN -5
    ELSE LET subject_lower == lower(user_subject)
         IN  IF \E word \in professional_words : contains(subject_lower, word)
             THEN 15 ELSE 0

\* Variant: a name of 3 characters counts as complete
name_adjustment_at_least_three(user_name) ==
    IF user_name # <<>> /\ Len(user_name) >= 3 THEN 10 ELSE 0

\* The sender-name adjustment (hundredths)
name_adjustment(user_name) ==
    IF user_name # <<>> /\ Len(user_name) > 3 THEN 10 ELSE 0

\* Variant: the three tests made one after the other instead of nested and
\* chained, each adding its adjustment
email_adjustment_independent(user_email) ==
    IF user_email # <<>>
    THEN (IF contains(user_email, s_at) /\ contains(user_email, s_dot) THEN 0 ELSE -15)
         + (IF \/ contains(user_email, s_gmail)
               \/ contains(user_email, s_hotmail)
               \/ contains(user_email, s_yahoo)
            THEN 5 ELSE 0)
         + (IF \E domain \in {s_empresa, s_company, s_corp, s_inc} :
                 contains(user_email, domain)
            THEN 20 ELSE 0)
    ELSE 0

\* The sender-email adjustment (hundredths)
email_adjustment(user_email) ==
    IF user_email # <<>>
    THEN IF contains(user_email, s_at) /\ contains(user_email, s_dot)
         THEN IF \/ contains(user_email, s_gmail)
                 \/ contains(user_email, s_hotmail)
                 \/ contains(user_email, s_yahoo)
              THEN 5
              ELSE IF \E domain \in {s_empresa, s_company, s_corp, s_inc} :
                        contains(user_email, domain)
              THEN 20
              ELSE 0
         ELSE -15
    ELSE 0

\* The multiplier from subject, sender name and sender email (hundredths)
calculate_subject_confidence_boost(user_subject, user_name, user_email) ==
    clamp(100 + subject_adjustment(user_subject) + name_adjustment(user_name)
              + email_adjustment(user_email), 50, 150)

\* The float the function returns: boost = 1.0, then the statements
\* boost += / boost -= of the adjustments in the order of the code, then the clamp
calculate_subject_confidence_boost_binary64(user_subject, user_name, user_email) ==
    LET b1 == adjust(float_literal(100), subject_adjustment(user_subject))
        b2 == adjust(b1, name_adjustment(user_name))
        b3 == adjust(b2, email_adjustment(user_email))
    IN  float_clamp(b3, float_literal(50), float_literal(150))

-----------------------------------------------------------------------------
(* calculate_content_confidence_boost *)

professional_keywords ==
    { w_urgente, w_suporte, w_erro, w_bug, w_problema, w_solicitacao,
      w_informacao, w_status, w_duvida, w_questao, w_reuniao, w_aprovacao,
      w_acesso, w_integracao, w_implementacao, w_feedback, w_relatorio,
      w_correcao, w_alteracao, w_backup, w_dados, w_projeto, w_prazo,
      w_ajuda, <<"a","s","s","i","s","t","ê","n","c","i","a">>,
      <<"n","e","c","e","s","s","á","r","i","o">>,
      <<"i","m","p","o","r","t","a","n","t","e">>, <<"a","t","e","n","ç","ã","o">> }

\* The length adjustment (hundredths)
length_adjustment(word_count) ==
    IF word_count < 20 THEN -15
    ELSE IF word_count > 500 THEN -5
    ELSE 5

\* Variant: the ratio 0.3 itself counts as too many capitals
caps_adjustment_at_least(email_text, word_count) ==
    LET caps_count == Cardinality({i \in 1..Len(email_text) : isupper(email_text[i])})
    IN  IF word_count > 0 /\ 10 * caps_count >= 3 * Len(email_text) THEN -20 ELSE 0

\* The capitals adjustment: caps_count / len(email_text) > 0.3
caps_adjustment(email_text, word_count) ==
    LET caps_count == Cardinality({i \in 1..Len(email_text) : isupper(email_text[i])})
    IN  IF word_count > 0 /\ 10 * caps_count > 3 * Len(email_text) THEN -20 ELSE 0

\* The question-mark adjustment
question_adjustment(email_text) == IF count(email_text, "?") > 2 THEN 10 ELSE 0

\* The exclamation-mark adjustment
exclamation_adjustment(email_text) == IF count(email_text, "!") > 5 THEN -10 ELSE 0

\* The punctuation adjustment
punctuation_adjustment(email_text) ==
    question_adjustment(email_text) + exclamation_adjustment(email_text)

\* The keyword adjustment: at least 3 of the professional keywords occur
keyword_adjustment(email_text) ==
    LET email_lower == lower(email_text)
        prof_count == Cardinality({word \in professional_keywords : contains(email_lower, word)})
    IN  IF prof_count >= 3 THEN 15 ELSE 0

\* caps_count / len(email_text) divides by zero when a positive word_count is
\* passed with an empty email_text
content_boost_raises(email_text, word_count) ==
    word_count > 0 /\ Len(email_text) = 0

\* The multiplier from the e-mail body (hundredths)
calculate_content_confidence_boost(email_text, word_count) ==
    clamp(100 + length_adjustment(word_count) + caps_adjustment(email_text, word_count)
              + punctuation_adjustment(email_text) + keyword_adjustment(email_text),
          50, 150)

\* The float the function returns: boost = 1.0, then the statements
\* boost += / boost -= of the adjustments in the order of the code, then the clamp
calculate_content_confidence_boost_binary64(email_text, word_count) ==
    LET b1 == adjust(float_literal(100), length_adjustment(word_count))
        b2 == adjust(b1, caps_adjustment(email_text, word_count))
        b3 == adjust(b2, question_adjustment(email_text))
        b4 == adjust(b3, exclamation_adjustment(email_text))
        b5 == adjust(b4, keyword_adjustment(email_text))
    IN  float_clamp(b5, float_literal(50), float_literal(150))

-----------------------------------------------------------------------------
(* _get_template_reply *)

\* The reply text is a sequence whose elements are the characters of the
\* interpolated values and, as single elements, the fixed phrases of the template.

\* Variant: the band limits taken inclusive
content_char_inclusive(word_count) ==
    IF word_count <= 30 THEN "é bastante breve"
    ELSE IF word_count <= 80 THEN "é concisa"
    ELSE IF word_count <= 200 THEN "é detalhada"
    ELSE "é muito completa"

\* The content-length descriptor of the word-count band
content_char(word_count) ==
    IF word_count < 30 THEN "é bastante breve"
    ELSE IF word_count < 80 THEN "é concisa"
    ELSE IF word_count < 200 THEN "é detalhada"
    ELSE "é muito completa"

\* Python's None given as an argument
PyNone == <<"<None>">>

\* `if value`: a str is true unless it is empty, None is false
truthy(value) == value # <<>> /\ value # PyNone

_get_template_reply(category, user_name, user_subject, email_text) ==
    LET greeting == IF truthy(user_name) THEN <<"Prezado(a)", " ">> \o user_name
                    ELSE <<"Prezado(a)">>
        content_preview == IF truthy(email_text) THEN prefix(email_text, 50)
                           ELSE <<"(sem conteúdo)">>
        word_count == IF truthy(email_text) THEN Len(split(email_text)) ELSE 0
        subject_text == IF truthy(user_subject) THEN <<"'">> \o user_subject \o <<"'">>
                        ELSE <<"(sem assunto)">>
    IN  IF category = "Produtivo"
        THEN greeting
             \o <<", Agradecemos o seu contato. Recebemos seu e-mail com o assunto ">>
             \o subject_text
             \o <<", porém o conteúdo da mensagem ('">> \o content_preview \o <<"') ">>
             \o <<content_char(word_count)>>
             \o <<". Para que possamos dar o devido encaminhamento, poderia nos fornecer mais informações? Permanecemos à disposição.">>
        ELSE greeting
             \o <<", Agradecemos o seu contato sobre ">> \o subject_text
             \o <<". Recebemos sua mensagem ('">> \o content_preview
             \o <<"') e valorizamos sua consideração. Sua contribuição é importante para nós. Muito obrigado e continue contando conosco.">>

-----------------------------------------------------------------------------
(* generate_reply *)

\* What the external reply generator does when it is called: the call raises
\* (a timeout included), the response carries no text (response.text is None),
\* or it carries a text.
GeneratedTexts ==
    { <<" ", "O", "l", "á", ".", "\n">>, <<>>, <<" ", " ">> }
GenOutcomes ==
    [kind : {"raises", "none_text"}, text : {<<>>}]
    \cup [kind : {"text"}, text : GeneratedTexts]
\* The generator is not called
NoAnswer == [kind |-> "not_called", text |-> <<>>]

\* Variant: the two weights exchanged
final_multiplier_swapped(subject_boost, content_boost) == subject_boost * 6 + content_boost * 4

\* final_multiplier = subject_boost * 0.4 + content_boost * 0.6  (thousandths)
final_multiplier(subject_boost, content_boost) == subject_boost * 4 + content_boost * 6

\* Variant: the product is returned without the clamp to [0, 1]
adjusted_score_unclamped(classification_score, multiplier) ==
    (classification_score * multiplier) \div 1000

\* adjusted_score = max(0.0, min(classification_score * final_multiplier, 1.0))
adjusted_score(classification_score, multiplier) ==
    clamp((classification_score * multiplier) \div 1000, 0, Unit)

\* The exception, if any, that the body of generate_reply's try block raises
\* before the reply text is obtained: the diagnostic line that prints the
\* relative change divides by classification_score.
score_diagnostic_raises(classification_score) ==
    IF classification_score = 0 THEN "ZeroDivisionError" ELSE "none"

\* Variant: a handler that names one exception type
handler_catches_value_error(exc) == exc = "ValueError"

\* except Exception (the handler around the generator call, and the one
\* around the whole body): which exceptions it catches
handler_catches(exc) == TRUE

\* What the caller holds when the call raised instead of returning
NoValue == [category |-> "", score |-> 0, reply |-> <<>>]

\* The result generate_reply builds in its outer handler
error_result ==
    [category |-> "Erro", score |-> 0, reply |-> <<"Erro ao gerar resposta automatica.">>]

\* The reply text: from the generator, or from the template (`template` is
\* the value of _get_template_reply for this call) when there is no client,
\* the call raises, or response.text.strip() raises.
\* [text, source, escaped]: escaped is the exception that leaves the inner try.
obtain_reply(client, g, template) ==
    IF client # "None"
    THEN LET exc == IF g.kind = "raises" THEN "APIError"
                    ELSE IF g.kind = "none_text" THEN "AttributeError"
                    ELSE "none"
         IN  IF exc = "none"
             THEN [text |-> strip(g.text), source |-> "generator", escaped |-> "none"]
             ELSE IF handler_catches(exc)
             THEN [text |-> template, source |-> "template", escaped |-> "none"]
             ELSE [text |-> <<>>, source |-> "none", escaped |-> exc]
    ELSE [text |-> template, source |-> "template", escaped |-> "none"]

\* generate_reply(email_text, category, user_name, user_email, user_subject,
\* classification_score) with the module's genai_client `client`: the results
\* the call can produce, one for each answer of the generator.  value is the
\* decoded JSON object returned; raised is the exception caught by the outer
\* handler; escaped is the exception that propagates to the caller; source
\* tells where the reply text is from; generator tells what the generator did
\* ("not_called" when the call was not made).
generate_reply(email_text, category, user_name, user_email, user_subject, classification_score, client) ==
    LET subject_boost == calculate_subject_confidence_boost(user_subject, user_name, user_email)
        word_count == Len(split(email_text))
        content_boost == calculate_content_confidence_boost(email_text, word_count)
        multiplier == final_multiplier(subject_boost, content_boost)
        adjusted == adjusted_score(classification_score, multiplier)
        early == IF content_boost_raises(email_text, word_count) THEN "ZeroDivisionError"
                 ELSE score_diagnostic_raises(classification_score)
        template == _get_template_reply(category, user_name, user_subject, email_text)
        result(g) ==
            LET got == obtain_reply(client, g, template)
                exc == IF early # "none" THEN early ELSE got.escaped
            IN  IF exc = "none"
                THEN [value |-> [category |-> category, score |-> adjusted, reply |-> got.text],
                      raised |-> "none", escaped |-> "none", source |-> got.source,
                      generator |-> g.kind]
                ELSE IF handler_catches(exc)
                THEN [value |-> error_result, raised |-> exc, escaped |-> "none",
                      source |-> "error",
                      generator |-> IF early # "none" THEN "not_called" ELSE g.kind]
                ELSE [value |-> NoValue, raised |-> "none", escaped |-> exc,
                      source |-> "none",
                      generator |-> IF early # "none" THEN "not_called" ELSE g.kind]
    IN  {result(g) : g \in IF client # "None" THEN GenOutcomes ELSE {NoAnswer}}

-----------------------------------------------------------------------------
(* preprocess_text *)

\* stemmer.stem(word) of the stand-in stemmer, which returns the word as it is
\* (the RSLP stemmer of the NLTK library is outside this repository)
stem(word) == word

\* Variant: words of 2 characters are kept
is_kept_two_characters(word) == word \notin _stop_words /\ Len(word) >= 2

\* The filter of preprocess_text: not a stop word and longer than 2 characters
is_kept(word) == word \notin _stop_words /\ Len(word) > 2

preprocess_text(text) ==
    IF text = <<>>
    THEN [original_text |-> <<>>, clean_text |-> <<>>, token_count |-> 0, word_count |-> 0]
    ELSE LET t == strip(lower(text))
             words == split(t)
             kept == SelectSeq(words, is_kept)
             filtered_words == [i \in 1..Len(kept) |-> stem(kept[i])]
         IN  [original_text |-> t, clean_text |-> join(filtered_words),
              token_count |-> Len(filtered_words), word_count |-> Len(words)]

-----------------------------------------------------------------------------
(* process (POST /process) *)

\* f"{reply_score:.2f}": the score rounded to two decimals.  A value exactly
\* half way between two hundredths is rendered as either neighbour, depending
\* on the binary representation of the float.
format_2f(x) ==
    LET q == x \div Cent
        r == x % Cent
    IN  IF 2 * r < Cent THEN {q * Cent}
        ELSE IF 2 * r > Cent THEN {(q + 1) * Cent}
        ELSE {q * Cent, (q + 1) * Cent}

Dropped == "<dropped>"
is_not_dropped(c) == c # Dropped

\* reply_text.replace("\r\n", "\n").replace("\n\n", "<p>").replace("\n", "<br>")
to_html(reply_text) ==
    LET n == Len(reply_text)
        m1 == [i \in 1..n |->
                 IF reply_text[i] = "\r" /\ i < n /\ reply_text[i + 1] = "\n"
                 THEN Dropped ELSE reply_text[i]]
        t == SelectSeq(SubSeq(m1, 1, n), is_not_dropped)
        k == Len(t)
        \* the number of line feeds directly before position i
        before(i) == CHOOSE b \in 0..(i - 1) :
                        /\ \A j \in 1..b : t[i - j] = "\n"
                        /\ (b = i - 1 \/ t[i - b - 1] # "\n")
        m2 == [i \in 1..k |->
                 IF t[i] # "\n" THEN t[i]
                 ELSE IF before(i) % 2 = 1 THEN Dropped
                 ELSE IF i < k /\ t[i + 1] = "\n" THEN "<p>"
                 ELSE "<br>"]
    IN  SelectSeq(SubSeq(m2, 1, k), is_not_dropped)

\* The default of generate_reply's parameter classification_score
default_classification_score == 50 * Cent

\* The uploaded file: none (or one with an empty filename), one whose text
\* read_file_text returns, or one on which read_file_text raises.
NoFile == [kind |-> "none", text |-> <<>>]

msg_file_error == <<"Erro ao ler arquivo: ">>
msg_no_text == <<"Forneça um texto ou arquivo.">>
msg_process_error == <<"Erro ao processar: ">>

NoRaw == [category |-> "", score |-> 0]

\* process() for the form fields text, email, nome, assunto and the uploaded
\* file, with the module's pipeline and genai_client: the responses the
\* request can produce.  value is the result rendered, status the HTTP status,
\* branch the return statement taken, raw what classify_text returned.
process(form_text, file, form_email, form_nome, form_assunto, pl, client) ==
    IF file.kind = "raises"
    THEN {[value |-> [category |-> "Erro", score |-> 0, reply |-> msg_file_error],
           status |-> 200, branch |-> "file_error", raw |-> NoRaw]}
    ELSE
    LET text == IF file.kind = "content" THEN file.text ELSE strip(form_text)
    IN  IF text = <<>>
        THEN {[value |-> [category |-> "Nenhum texto fornecido", score |-> 0,
                          reply |-> msg_no_text],
               status |-> 200, branch |-> "no_text", raw |-> NoRaw]}
        ELSE
        LET processed == preprocess_text(text)
            classified == classify_text(processed.clean_text, pl)
            user_email == strip(form_email)
            user_nome == strip(form_nome)
            user_assunto == strip(form_assunto)
            respond(c, r) ==
                IF c.escaped # "none" \/ r.escaped # "none"
                THEN {[value |-> [category |-> "Erro", score |-> 0, reply |-> msg_process_error],
                       status |-> 500, branch |-> "error",
                       raw |-> [category |-> c.category, score |-> c.score]]}
                ELSE LET reply_html == to_html(r.value.reply)
                     IN  {[value |-> [category |-> r.value.category, score |-> sc,
                                      reply |-> reply_html],
                           status |-> 200, branch |-> "replied",
                           raw |-> [category |-> c.category, score |-> c.score]] :
                            sc \in format_2f(r.value.score)}
            replied(cat) ==
                LET replies == generate_reply(text, cat, user_nome, user_email, user_assunto,
                                              default_classification_score, client)
                IN  UNION {respond(c, r) : c \in {d \in classified : d.category = cat},
                                           r \in replies}
        IN  UNION {replied(cat) : cat \in {c.category : c \in classified}}

-----------------------------------------------------------------------------
(* The calls drawn *)

w_filler == <<"a","b","c">>
w_erros == <<"e","r","r","o","s">>
w_a == <<"a">>

\* A text of w tokens of which the first k are the word `kw`
MkText(w, k, kw, fill) ==
    join([i \in 1..w |-> IF i <= k THEN kw ELSE fill])

WordCounts == {1, 2, 3, 29, 30, 49, 50, 99, 100, 199, 200, MaxWords}

CleanTexts ==
    { MkText(w, k, w_erro, w_filler) : w \in WordCounts, k \in 0..MaxKeywords }
    \cup { MkText(w, 0, w_erro, w_erros) : w \in {2, 30, 50, MaxWords} }
    \cup { <<>>, <<" ">>, <<" ", "\n", "\t">>,
           <<" ">> \o w_erro \o <<" ", " ">> \o w_bug \o <<"\n">> }

NoArgs == [text |-> <<>>, category |-> "", name |-> <<>>, email |-> <<>>,
           subject |-> <<>>, score |-> 0, file |-> NoFile]

ClassifyCalls == { [NoArgs EXCEPT !.text = t] @@ [op |-> "classify_text"] : t \in CleanTexts }

\* Sender metadata: subject, name, e-mail address
t_Oi == <<"O","i">>
t_Ana == <<"A","n","a">>
t_Joao == <<"J","o","ã","o"," ","S","i","l","v","a">>
t_SuporteUrgente == <<"S","U","P","O","R","T","E"," ","u","r","g","e","n","t","e">>
t_Assunto == <<"A","s","s","u","n","t","o"," ","g","e","r","a","l">>
t_notanemail == <<"n","o","t","a","n","e","m","a","i","l">>
t_gmail == <<"a","n","a","@","g","m","a","i","l",".","c","o","m">>
t_empresa == <<"v","i","p","@","e","m","p","r","e","s","a",".","c","o","m">>
t_email == <<"j","o","a","o","@","e","m","a","i","l",".","c","o","m">>

Metas ==
    { [subject |-> <<>>, name |-> <<>>, email |-> t_notanemail],
      [subject |-> <<" ", " ">>, name |-> t_Ana, email |-> <<>>],
      [subject |-> t_Oi, name |-> <<>>, email |-> t_notanemail],
      [subject |-> w_erro, name |-> t_Joao, email |-> t_email],
      [subject |-> t_Assunto, name |-> <<>>, email |-> <<>>],
      [subject |-> t_Assunto, name |-> t_Ana, email |-> t_gmail],
      [subject |-> t_SuporteUrgente, name |-> t_Joao, email |-> t_empresa],
      [subject |-> Rep(21, <<"e","r","r","o"," ">>), name |-> t_Joao, email |-> t_gmail] }

\* E-mail bodies
t_Teste == <<"T","e","s","t","e">>
t_spam == <<"C","L","I","Q","U","E"," ","A","Q","U","I","!","!","!"," ","G","A","N","H","E","!","!","!">>
t_keywords == <<"e","r","r","o"," ","b","u","g"," ","P","R","A","Z","O"," ">>

ShortBodies ==
    { <<>>,
      t_Teste,
      t_spam,
      t_keywords \o MkText(17, 0, w_erro, w_a),
      <<"Q","u","a","l","?"," ","C","o","m","o","?"," ","Q","u","a","n","d","o","?"," ">>
        \o t_keywords \o MkText(19, 0, w_erro, w_a),
      MkText(30, 0, w_erro, <<"A","B","c">>) }

LongBodies ==
    { MkText(500, 1, w_erro, w_a),
      MkText(501, 0, w_erro, w_a) }

Categories == {"Produtivo", "Improdutivo", "Outro"}
RawScores == {0, 10 * Cent, 50 * Cent, 90 * Cent, Unit}

GenerateReplyCalls ==
    { [op |-> "generate_reply", text |-> b, category |-> c, name |-> m.name,
       email |-> m.email, subject |-> m.subject, score |-> sc, file |-> NoFile] :
        b \in ShortBodies, c \in Categories, m \in Metas, sc \in RawScores }
    \cup
    { [op |-> "generate_reply", text |-> b, category |-> "Produtivo", name |-> t_Joao,
       email |-> t_empresa, subject |-> t_SuporteUrgente, score |-> sc, file |-> NoFile] :
        b \in LongBodies, sc \in {0, Unit} }

\* Submissions to POST /process
t_ScenarioA == <<"P","r","e","c","i","s","o"," ","d","e"," ","s","u","p","o","r","t","e"," ","u","r","g","e","n","t","e"," ","c","o","m"," ","e","r","r","o"," ","n","o"," ","s","i","s","t","e","m","a">>
t_OiTudoBem == <<"O","i"," ","t","u","d","o"," ","b","e","m">>
t_file == <<"s","u","p","o","r","t","e"," ","u","r","g","e","n","t","e","\r","\n","e","r","r","o","\n","\n","n","o"," ","s","i","s","t","e","m","a">>

FormTexts ==
    { <<>>, <<" ", " ">>, t_ScenarioA, t_OiTudoBem,
      MkText(35, 2, w_erro, w_filler), MkText(60, 1, w_erro, w_filler) }

Files ==
    { NoFile, [kind |-> "raises", text |-> <<>>] }
    \cup { [kind |-> "content", text |-> t] : t \in {<<>>, <<" ", "\n">>, t_file} }

FormMetas ==
    { [subject |-> <<>>, name |-> <<>>, email |-> <<>>],
      [subject |-> <<" ">> \o t_SuporteUrgente, name |-> t_Joao \o <<" ">>, email |-> t_empresa],
      [subject |-> t_Oi, name |-> t_Ana, email |-> t_notanemail] }

ProcessCalls ==
    { [op |-> "process", text |-> t, category |-> "", name |-> m.name, email |-> m.email,
       subject |-> m.subject, score |-> 0, file |-> f] :
        t \in FormTexts, f \in Files, m \in FormMetas }

\* Direct calls of calculate_subject_confidence_boost
t_erro_ == <<"e","r","r","o"," ">>
Subjects ==
    { <<>>, <<" ", " ">>, t_Oi, w_erro, w_prazo, t_Assunto, t_SuporteUrgente,
      Rep(20, t_erro_), Rep(21, t_erro_), Rep(21, <<"a","b","c","d"," ">>) }
Names == { <<>>, t_Ana, <<"A","n","n","a">>, t_Joao }
Emails ==
    { <<>>, t_notanemail, t_gmail, t_empresa, t_email,
      <<"a","@","b">>,
      <<"g","m","a","i","l",".","c","o","m">>,
      <<"c","o","r","p","@","g","m","a","i","l",".","c","o","m">>,
      <<"a","n","a",".","c","o","r","p">>,
      <<"r","h","@","y","a","h","o","o",".","c","o","m">>,
      <<"x","@","h","o","t","m","a","i","l",".","c","o","m">>,
      <<"a","@","c","o","m","p","a","n","y",".","o","r","g">>,
      <<"b","@","x",".","i","n","c">> }

SubjectBoostCalls ==
    { [NoArgs EXCEPT !.subject = sj, !.name = n, !.email = e]
        @@ [op |-> "calculate_subject_confidence_boost"] :
        sj \in Subjects, n \in Names, e \in Emails }

\* Direct calls of calculate_content_confidence_boost
Marks(n, c) == [i \in 1..n |-> c]

\* A body of w words: the words kws, a word of q question marks (q > 0), a
\* word of e exclamation marks (e > 0), and filler words
MkBody(w, kws, q, e) ==
    LET head == kws \o (IF q > 0 THEN <<Marks(q, "?")>> ELSE <<>>)
                    \o (IF e > 0 THEN <<Marks(e, "!")>> ELSE <<>>)
    IN  join(head \o [i \in 1..(w - Len(head)) |-> <<"a","b">>])

KeywordLists ==
    { <<>>, <<w_erro, w_bug>>, <<w_erro, w_bug, w_prazo>>, <<w_erro, w_erro, w_erro>>,
      <<w_erros, w_dados, w_ajuda>> }

LowerCaseBodies ==
    { MkBody(w, k, q, e) : w \in {19, 20}, k \in KeywordLists, q \in {2, 3}, e \in {5, 6} }
    \cup { MkBody(w, k, 3, 0) : w \in {500, 501}, k \in {<<>>, <<w_erro, w_bug, w_prazo>>} }

ContentBodies ==
    LowerCaseBodies
    \cup { upper(b) : b \in LowerCaseBodies }
    \cup { <<>>, <<" ">>, t_Teste, t_spam,
           <<"A","B","C","d","e","f","g","h","i","j">>,
           <<"A","B","C","D","e","f","g","h","i","j">> }

ContentBoostCalls ==
    { [NoArgs EXCEPT !.text = b] @@ [op |-> "calculate_content_confidence_boost",
                                     word_count |-> Len(split(b))] : b \in ContentBodies }
    \cup
    { [NoArgs EXCEPT !.text = c.text] @@ [op |-> "calculate_content_confidence_boost",
                                         word_count |-> c.word_count] :
        c \in { [text |-> <<>>, word_count |-> 1],
                [text |-> t_spam, word_count |-> 0],
                [text |-> t_spam, word_count |-> 600] } }

\* Direct calls of preprocess_text
t_mixed == <<" ","D","e"," ","A"," "," ","P","A","R","A"," ","o"," ","E","R","R","O"," ","o","i"," ","a","b","c","\n">>
PreprocessCalls ==
    { [NoArgs EXCEPT !.text = t] @@ [op |-> "preprocess_text"] :
        t \in { <<>>, <<" ">>, <<" ", "\n", "\t">>, t_ScenarioA, t_OiTudoBem, t_file, t_spam,
                t_mixed, t_Oi, MkText(30, 2, w_erro, w_a), t_Joao } }

\* Direct calls of _get_template_reply


TemplateBodies ==
    { MkText(w, 0, w_erro, <<"p","a","l","a","v","r","a">>) :
        w \in {1, 29, 30, 79, 80, 150, 199, 200, MaxWords} }
    \cup { <<>>, PyNone, <<" ", "\n">>, <<"O","K">>,
           <<"N","o","n","e"," ","o","f"," ","t","h","i","s"," ","w","o","r","k","s">>,
           <<"A"," ","r","e","s","p","o","s","t","a"," ","é"," ","c","o","n","c","i","s","a">> }

TemplateCalls ==
    { [NoArgs EXCEPT !.text = b, !.category = c, !.name = n, !.subject = s]
        @@ [op |-> "_get_template_reply"] :
        b \in TemplateBodies, c \in Categories, n \in {<<>>, PyNone, t_Joao},
        s \in {<<>>, PyNone, t_Teste} }

Calls ==
    ClassifyCalls \cup GenerateReplyCalls \cup ProcessCalls
    \cup SubjectBoostCalls \cup ContentBoostCalls \cup PreprocessCalls
    \cup TemplateCalls

NoRet == [category |-> "", score |-> 0]
NoObs == [invoked |-> <<>>, path |-> "", model |-> NoModelAnswer, raised |-> "none",
          escaped |-> "none", source |-> "none", generator |-> "not_called", branch |-> "",
          raw |-> NoRaw, shown |-> 0]
\* What the caller holds when a sub-scorer raised instead of returning
NoBoost == [boost |-> <<0, 0, 0, 0>>]

-----------------------------------------------------------------------------
(* The state machine *)

\* nlp.py at import: pipeline = load_model() is the loaded model, or None when
\* the file is missing or cannot be loaded; genai_client is a client or None.
load_model == {"None", "Pipeline"}

Init ==
    /\ pipeline \in load_model
    /\ genai_client \in {"None", "Client"}
    /\ call \in Calls
    /\ pc = "called"
    /\ ret = NoRet
    /\ obs = NoObs

\* A direct call of classify_text(clean_text)
CallClassifyText ==
    /\ pc = "called"
    /\ call.op = "classify_text"
    /\ \E r \in classify_text(call.text, pipeline) :
         /\ ret' = [category |-> r.category, score |-> r.score]
         /\ obs' = [NoObs EXCEPT !.invoked = r.invoked, !.path = r.path, !.model = r.model,
                                 !.escaped = r.escaped]
    /\ pc' = "returned"
    /\ UNCHANGED <<pipeline, genai_client, call>>

\* A direct call of generate_reply(...)
CallGenerateReply ==
    /\ pc = "called"
    /\ call.op = "generate_reply"
    /\ \E r \in generate_reply(call.text, call.category, call.name, call.email,
                               call.subject, call.score, genai_client) :
         /\ ret' = r.value
         /\ obs' = [NoObs EXCEPT !.raised = r.raised, !.escaped = r.escaped,
                                 !.source = r.source, !.generator = r.generator]
    /\ pc' = "returned"
    /\ UNCHANGED <<pipeline, genai_client, call>>

\* A request POST /process
CallProcess ==
    /\ pc = "called"
    /\ call.op = "process"
    /\ \E r \in process(call.text, call.file, call.email, call.name, call.subject,
                        pipeline, genai_client) :
         /\ ret' = r.value @@ [status |-> r.status]
         /\ obs' = [NoObs EXCEPT !.branch = r.branch, !.raw = r.raw]
    /\ pc' = "returned"
    /\ UNCHANGED <<pipeline, genai_client, call>>

\* A direct call of calculate_subject_confidence_boost(user_subject, user_name,
\* user_email); shown is the multiplier as the function prints it
CallSubjectBoost ==
    /\ pc = "called"
    /\ call.op = "calculate_subject_confidence_boost"
    /\ LET boost == calculate_subject_confidence_boost_binary64(call.subject, call.name,
                                                                call.email)
       IN  /\ ret' = [boost |-> boost]
           /\ obs' = [NoObs EXCEPT !.shown = format_boost_2f(boost)]
    /\ pc' = "returned"
    /\ UNCHANGED <<pipeline, genai_client, call>>

\* A direct call of calculate_content_confidence_boost(email_text, word_count)
CallContentBoost ==
    /\ pc = "called"
    /\ call.op = "calculate_content_confidence_boost"
    /\ IF content_boost_raises(call.text, call.word_count)
       THEN /\ ret' = NoBoost
            /\ obs' = [NoObs EXCEPT !.escaped = "ZeroDivisionError"]
       ELSE LET boost == calculate_content_confidence_boost_binary64(call.text,
                                                                     call.word_count)
            IN  /\ ret' = [boost |-> boost]
                /\ obs' = [NoObs EXCEPT !.shown = format_boost_2f(boost)]
    /\ pc' = "returned"
    /\ UNCHANGED <<pipeline, genai_client, call>>

\* A direct call of preprocess_text(text)
CallPreprocessText ==
    /\ pc = "called"
    /\ call.op = "preprocess_text"
    /\ ret' = preprocess_text(call.text)
    /\ obs' = NoObs
    /\ pc' = "returned"
    /\ UNCHANGED <<pipeline, genai_client, call>>

\* A direct call of _get_template_reply(category, user_name, user_subject,
\* email_text)
CallTemplateReply ==
    /\ pc = "called"
    /\ call.op = "_get_template_reply"
    /\ ret' = [reply |-> _get_template_reply(call.category, call.name, call.subject,
                                             call.text)]
    /\ obs' = NoObs
    /\ pc' = "returned"
    /\ UNCHANGED <<pipeline, genai_client, call>>

Next ==
    \/ CallClassifyText
    \/ CallGenerateReply
    \/ CallProcess
    \/ CallSubjectBoost
    \/ CallContentBoost
    \/ CallPreprocessText
    \/ CallTemplateReply

Spec == Init /\ [][Next]_vars

-----------------------------------------------------------------------------
(* Concurrent requests *)

\* Two requests POST /process served at the same time by two threads of one
\* process.  The variables are reused: call holds the two submissions and the
\* values the module globals got at import, pc the position of each thread,
\* obs the local variables of each thread, ret the result each thread renders.
\* A thread touches the module globals at three places: before_request and the
\* end of process() call limpar_cache, classify_text reads pipeline, and
\* generate_reply reads genai_client.  Each is one step.

\* Variant: the cache clean-up also drops the loaded model
limpar_cache_drops_model(globals) == [globals EXCEPT !.pipeline = "None"]

\* limpar_cache(): gc.collect() and a log line; the module globals, given and
\* returned as [pipeline, genai_client], stay as they are
limpar_cache(globals) == globals

\* The answers the trained model gives for the texts submitted (a fitted
\* model answers the same text the same way each time)
RequestModelOutcomes ==
    { [raises |-> "none", prediction |-> 1, proba |-> 80 * Cent],
      [raises |-> "none", prediction |-> 0, proba |-> 50 * Cent],
      [raises |-> "predict", prediction |-> 0, proba |-> 50 * Cent] }


\* The submissions: the form fields and the file, with what the trained model
\* and the reply generator answer if this request asks them.  The bodies name
\* three professional keywords, so that no adjusted score lies half way
\* between two hundredths and format_2f has one value.
Requests ==
    { [text |-> t_ScenarioA, file |-> NoFile, name |-> t_Joao, email |-> t_empresa,
       subject |-> t_SuporteUrgente, model |-> a, generator |-> g] :
        a \in RequestModelOutcomes, g \in {"raises", "text"} }
    \cup
    { [text |-> t_keywords \o MkText(32, 0, w_erro, w_filler), file |-> NoFile,
       name |-> t_Ana, email |-> t_gmail, subject |-> t_Assunto, model |-> a,
       generator |-> "none_text"] :
        a \in {x \in RequestModelOutcomes : x.prediction = 0} }
    \cup
    { [text |-> t, file |-> f, name |-> <<>>, email |-> <<>>, subject |-> <<>>,
       model |-> [raises |-> "none", prediction |-> 1, proba |-> 80 * Cent],
       generator |-> "text"] :
        t \in {<<" ", " ">>,
               <<"e","r","r","o","-","b","u","g","-","p","r","a","z","o"," ","o","k">>},
        f \in {NoFile, [kind |-> "raises", text |-> <<>>]} }

Threads == {1, 2}

NoLocals == [text |-> <<>>, clean_text |-> <<>>, raw |-> NoRaw, overlapped |-> FALSE]
NoResult == [category |-> "", score |-> 0, reply |-> <<>>, status |-> 0]

ConcInit ==
    /\ pipeline \in load_model
    /\ genai_client \in {"None", "Client"}
    /\ call \in { [op |-> "serve", requests |-> <<a, b>>, pipeline |-> pipeline,
                   genai_client |-> genai_client] : a \in Requests, b \in Requests }
    /\ pc = <<"waiting", "waiting">>
    /\ ret = <<NoResult, NoResult>>
    /\ obs = <<NoLocals, NoLocals>>

\* Whether the other thread is inside its handler
InFlight(i) == pc[i] \in {"preprocessed", "classified"}

\* Thread i takes its request: before_request, then process() up to and
\* including preprocess_text (the two early returns included)
Receive(i) ==
    /\ pc[i] = "waiting"
    /\ LET req == call.requests[i]
           globals == limpar_cache([pipeline |-> pipeline, genai_client |-> genai_client])
           text == IF req.file.kind = "content" THEN req.file.text ELSE strip(req.text)
       IN  /\ pipeline' = globals.pipeline
           /\ genai_client' = globals.genai_client
           /\ IF req.file.kind = "raises"
              THEN /\ ret' = [ret EXCEPT ![i] = [category |-> "Erro", score |-> 0,
                                                 reply |-> msg_file_error, status |-> 200]]
                   /\ pc' = [pc EXCEPT ![i] = "done"]
                   /\ obs' = obs
              ELSE IF text = <<>>
              THEN /\ ret' = [ret EXCEPT ![i] = [category |-> "Nenhum texto fornecido",
                                                 score |-> 0, reply |-> msg_no_text,
                                                 status |-> 200]]
                   /\ pc' = [pc EXCEPT ![i] = "done"]
                   /\ obs' = obs
              ELSE /\ obs' = [obs EXCEPT ![i] = [NoLocals EXCEPT
                                  !.text = text,
                                  !.clean_text = preprocess_text(text).clean_text,
                                  !.overlapped = InFlight(3 - i)]]
                   /\ pc' = [pc EXCEPT ![i] = "preprocessed"]
                   /\ ret' = ret
    /\ UNCHANGED call

\* Thread i runs classify_text(processed["clean_text"]), which reads pipeline;
\* if it raises, process() leaves through its last handler
Classify(i) ==
    /\ pc[i] = "preprocessed"
    /\ \E c \in classify_text(obs[i].clean_text, pipeline) :
         /\ c.model \in {call.requests[i].model, NoModelAnswer}
         /\ obs' = [obs EXCEPT ![i].raw = [category |-> c.category, score |-> c.score],
                               ![i].overlapped = @ \/ InFlight(3 - i)]
         /\ IF c.escaped = "none"
            THEN /\ pc' = [pc EXCEPT ![i] = "classified"]
                 /\ UNCHANGED <<pipeline, genai_client, ret>>
            ELSE LET globals == limpar_cache([pipeline |-> pipeline,
                                              genai_client |-> genai_client])
                 IN  /\ pipeline' = globals.pipeline
                     /\ genai_client' = globals.genai_client
                     /\ ret' = [ret EXCEPT ![i] = [category |-> "Erro", score |-> 0,
                                                   reply |-> msg_process_error,
                                                   status |-> 500]]
                     /\ pc' = [pc EXCEPT ![i] = "done"]
    /\ UNCHANGED call

\* Thread i runs generate_reply(...), which reads genai_client, builds the
\* result, calls limpar_cache and renders
Reply(i) ==
    /\ pc[i] = "classified"
    /\ LET req == call.requests[i]
           globals == limpar_cache([pipeline |-> pipeline, genai_client |-> genai_client])
       IN  /\ pipeline' = globals.pipeline
           /\ genai_client' = globals.genai_client
           /\ \E r \in generate_reply(obs[i].text, obs[i].raw.category, strip(req.name),
                                      strip(req.email), strip(req.subject),
                                      default_classification_score, genai_client) :
                /\ r.generator \in {req.generator, "not_called"}
                /\ IF r.escaped # "none"
                   THEN /\ ret' = [ret EXCEPT ![i] = [category |-> "Erro", score |-> 0,
                                                      reply |-> msg_process_error,
                                                      status |-> 500]]
                        /\ pc' = [pc EXCEPT ![i] = "done"]
                   ELSE \E sc \in format_2f(r.value.score) :
                        /\ ret' = [ret EXCEPT ![i] = [category |-> r.value.category,
                                                      score |-> sc,
                                                      reply |-> to_html(r.value.reply),
                                                      status |-> 200]]
                        /\ pc' = [pc EXCEPT ![i] = "done"]
    /\ obs' = [obs EXCEPT ![i].overlapped = @ \/ InFlight(3 - i)]
    /\ UNCHANGED call

ConcNext == \E i \in Threads : Receive(i) \/ Classify(i) \/ Reply(i)

ConcSpec == ConcInit /\ [][ConcNext]_vars

-----------------------------------------------------------------------------
(* Properties *)

Returned(op) == pc = "returned" /\ call.op = op

\* The multiplier the booster derives from the arguments of a generate_reply call
CallMultiplier(email_text, user_subject, user_name, user_email) ==
    LET sb == calculate_subject_confidence_boost(user_subject, user_name, user_email)
        cb == calculate_content_confidence_boost(email_text, Len(split(email_text)))
    IN  sb * 4 + cb * 6

\* raw * multiplier limited to [0, 1]
Limited(raw, multiplier) ==
    LET x == (raw * multiplier) \div 1000
    IN  IF x < 0 THEN 0 ELSE IF x > Unit THEN Unit ELSE x

\* C1: whatever the category, the raw score in [0,1], the sender data, the
\* body and the state of the generator, the score of the result that
\* generate_reply returns lies in [0.0, 1.0].
C1_ScoreWithinUnitInterval ==
    Returned("generate_reply") => (0 <= ret.score /\ ret.score <= Unit)

\* C1 witness: a call with raw score 1.0 and a multiplier above 1.0 returned
\* the score 1.0 (the upper clamp acted).
C1_Witness ==
    /\ Returned("generate_reply")
    /\ call.score = Unit
    /\ CallMultiplier(call.text, call.subject, call.name, call.email) > 1000
    /\ obs.raised = "none"
    /\ ret.score = Unit

\* C2: when generate_reply completes without internal failure, the score it
\* returns is clamp(classification_score * (subject_boost * 0.4 +
\* content_boost * 0.6), 0, 1), the boosts computed from the call's subject,
\* name, email and body.
C2_ScoreIsAdjustedScore ==
    (Returned("generate_reply") /\ obs.raised = "none" /\ obs.escaped = "none")
        => ret.score = Limited(call.score,
                               CallMultiplier(call.text, call.subject, call.name, call.email))

\* C2 witness: a call completed without failure and returned a score that is
\* neither the raw score nor a clamp bound.
C2_Witness ==
    /\ Returned("generate_reply")
    /\ obs.raised = "none"
    /\ ret.score # call.score
    /\ 0 < ret.score /\ ret.score < Unit

\* The text and sender data that process hands to generate_reply
SubmittedText == IF call.file.kind = "content" THEN call.file.text ELSE strip(call.text)
SubmittedMultiplier ==
    CallMultiplier(SubmittedText, strip(call.subject), strip(call.name), strip(call.email))

\* C3: in the request pipeline the score that the booster multiplies is the
\* raw score classify_text returned for the same request: the final score of
\* every classified submission is clamp(classifier raw score * multiplier, 0, 1)
\* (at the two-decimal precision of the response).
C3_PipelineBoostsClassifierScore ==
    (Returned("process") /\ obs.branch = "replied")
        => ret.score \in format_2f(Limited(obs.raw.score, SubmittedMultiplier))

\* C4: the booster never changes the category: the result of generate_reply
\* carries the category that was passed in, for every raw score in [0,1],
\* 0.0 included.
C4_CategoryUnchanged ==
    Returned("generate_reply") => ret.category = call.category

\* C5: every result of process has a category that is Produtivo, Improdutivo
\* or the error sentinel; an empty submission yields Improdutivo with score
\* 0.0 and the reply asking for a text or a file.
C5_CategoryInDomain ==
    Returned("process") =>
        /\ ret.category \in {"Produtivo", "Improdutivo", "Erro", "Error"}
        /\ SubmittedText = <<>> /\ call.file.kind # "raises" =>
              /\ ret.category = "Improdutivo"
              /\ ret.score = 0
              /\ ret.reply = <<"Forneça um texto ou arquivo.">>

\* C6: generate_reply never raises: an exception raised inside it is caught
\* at its boundary and turned into the result with category "Erro", score 0.0
\* and the fixed error text; every return value has exactly the keys
\* category, score and reply.
C6_NeverRaises ==
    Returned("generate_reply") =>
        /\ obs.escaped = "none"
        /\ DOMAIN ret = {"category", "score", "reply"}
        /\ obs.raised # "none" =>
              ret = [category |-> "Erro", score |-> 0,
                     reply |-> <<"Erro ao gerar resposta automatica.">>]

\* C6 witness: an exception was raised inside generate_reply and the call
\* returned the error result.
C6_Witness ==
    /\ Returned("generate_reply")
    /\ obs.raised = "ZeroDivisionError"
    /\ ret.category = "Erro"

\* C7: when the reply generator is absent, or its call raises, or its response
\* has no text, generate_reply falls back to the template of the category and
\* returns the category passed in with the adjusted score, not an error result.
C7_GeneratorFailureFallsBack ==
    (/\ Returned("generate_reply")
     /\ \/ genai_client = "None"
        \/ obs.generator \in {"raises", "none_text"})
        => /\ ret.category = call.category
           /\ ret.score = Limited(call.score,
                                  CallMultiplier(call.text, call.subject, call.name, call.email))
           /\ ret.reply = _get_template_reply(call.category, call.name, call.subject, call.text)

IsWhitespaceOnly(text) == \A i \in 1..Len(text) : text[i] \in {" ", "\t", "\n", "\r"}

\* C8: classify_text on an empty or whitespace-only clean_text returns
\* (Improdutivo, 0.0) without invoking predict or predict_proba, whether or
\* not a model is loaded.
C8_BlankShortCircuit ==
    (Returned("classify_text") /\ IsWhitespaceOnly(call.text))
        => /\ ret = [category |-> "Improdutivo", score |-> 0]
           /\ obs.invoked = <<>>

\* C8 witness: with a model loaded, a whitespace-only text that is not the
\* empty string was classified.
C8_Witness ==
    /\ Returned("classify_text")
    /\ pipeline = "Pipeline"
    /\ Len(call.text) > 0
    /\ IsWhitespaceOnly(call.text)
    /\ ret.score = 0

\* C9: a non-empty clean_text of 1 or 2 whitespace-separated tokens is
\* classified (Improdutivo, 0.10) whatever the number of productive keywords
\* among the tokens and whether or not a model is loaded; the model is not
\* consulted.
C9_ShortTextForced ==
    (Returned("classify_text") /\ Len(split(call.text)) \in {1, 2})
        => /\ ret = [category |-> "Improdutivo", score |-> 10 * Cent]
           /\ obs.invoked = <<>>

\* C9 witness: with a model loaded, a text of two tokens that are both
\* productive keywords was classified.
C9_Witness ==
    /\ Returned("classify_text")
    /\ pipeline = "Pipeline"
    /\ LET words == split(call.text)
       IN  Len(words) = 2 /\ \A i \in 1..2 : words[i] \in productive_keywords
    /\ ret.category = "Improdutivo"

\* The table of the heuristic: word count w, k tokens that are keywords
HeuristicTable(w, k) ==
    IF w < 30 THEN <<"Improdutivo", 20>>
    ELSE IF w < 50 THEN (IF k >= 2 THEN <<"Produtivo", 50>> ELSE <<"Improdutivo", 30>>)
    ELSE IF w < 100 THEN (IF k >= 1 THEN <<"Produtivo", 60>> ELSE <<"Improdutivo", 40>>)
    ELSE IF w < 200 THEN (IF k >= 1 THEN <<"Produtivo", 75>> ELSE <<"Improdutivo", 60>>)
    ELSE (IF k >= 1 THEN <<"Produtivo", 90>> ELSE <<"Produtivo", 70>>)

KeywordTokens(text) ==
    LET words == split(text)
    IN  Cardinality({i \in 1..Len(words) : words[i] \in productive_keywords})

BandCeiling(w) ==
    IF w < 50 THEN 60 ELSE IF w < 100 THEN 70 ELSE IF w < 200 THEN 85 ELSE 100

\* C11: on the model path (a model is loaded, predict and predict_proba
\* succeed, and the text has w >= 3 words) classify_text returns Produtivo
\* iff the prediction is 1, and the score min(largest class probability,
\* ceiling of the band of w), ceiling 0.60 for w<50, 0.70 for w<100, 0.85 for
\* w<200 and 1.0 otherwise; the score never exceeds the ceiling of its band.
C11_ModelPath ==
    (/\ Returned("classify_text")
     /\ pipeline = "Pipeline"
     /\ obs.model.raises = "none"
     /\ Len(split(call.text)) >= 3)
        => LET ceiling == BandCeiling(Len(split(call.text))) * Cent
           IN  /\ (ret.category = "Produtivo") <=> (obs.model.prediction = 1)
               /\ ret.category \in {"Produtivo", "Improdutivo"}
               /\ ret.score = (IF obs.model.proba < ceiling THEN obs.model.proba ELSE ceiling)
               /\ ret.score <= ceiling

\* C11 witness: the model answered class 1 with probability 0.80 for a text of
\* exactly 50 words, and the ceiling 0.70 of the band 50..99 was returned.
C11_Witness ==
    /\ Returned("classify_text")
    /\ obs.model.raises = "none"
    /\ obs.model.prediction = 1
    /\ obs.model.proba = 80 * Cent
    /\ Len(split(call.text)) = 50
    /\ ret = [category |-> "Produtivo", score |-> 70 * Cent]

\* C12: when the model is loaded and predict or predict_proba raises,
\* classify_text catches the error and returns exactly what the heuristic
\* returns for the same clean_text; no model error reaches the caller, and
\* every call returns a pair with category Produtivo or Improdutivo and a
\* score in [0, 1].
C12_ModelFailureFallsBack ==
    Returned("classify_text")
        => /\ obs.escaped = "none"
           /\ ret.category \in {"Produtivo", "Improdutivo"}
           /\ 0 <= ret.score /\ ret.score <= Unit
           /\ (obs.model.raises \in {"predict", "predict_proba"})
                => LET row == HeuristicTable(Len(split(call.text)), KeywordTokens(call.text))
                   IN  ret = [category |-> row[1], score |-> row[2] * Cent]

\* C12 witness: predict succeeded and predict_proba raised on a text of 50
\* to 99 words with a keyword token; the heuristic's (Produtivo, 0.60) was
\* returned.
C12_Witness ==
    /\ Returned("classify_text")
    /\ pipeline = "Pipeline"
    /\ obs.model.raises = "predict_proba"
    /\ obs.invoked = <<"predict", "predict_proba">>
    /\ Len(split(call.text)) \in 50..99
    /\ KeywordTokens(call.text) >= 1
    /\ obs.escaped = "none"
    /\ ret = [category |-> "Produtivo", score |-> 60 * Cent]

\* C13: the keyword-rich short request of Scenario A, "Preciso de suporte
\* urgente com erro no sistema", normalised by preprocess_text and classified
\* by classify_text, is Produtivo with a raw score above 0, also when the
\* heuristic classifies it (stated here for the case that no model is loaded;
\* with a model loaded the category is the model's prediction).
C13_ScenarioAProductive ==
    (/\ Returned("process")
     /\ call.text = t_ScenarioA
     /\ call.file = NoFile
     /\ pipeline = "None")
        => /\ obs.raw.category = "Produtivo"
           /\ obs.raw.score > 0

\* 0.5 <= d <= 1.5 for a float d
WithinBoostRange(d) ==
    /\ ~big_lt(d, float_literal(50))
    /\ ~big_lt(float_literal(150), d)

BlankSubject(sj) == \A i \in 1..Len(sj) : sj[i] \in {" ", "\t", "\n", "\r"}
HasProfessionalWord(sj) == \E word \in professional_words : contains(lower(sj), word)
Malformed(e) == e # <<>> /\ (~contains(e, <<"@">>) \/ ~contains(e, <<".">>))
Webmail(e) == \E d \in {s_gmail, s_hotmail, s_yahoo} : contains(e, d)
Corporate(e) == \E d \in {s_empresa, s_company, s_corp, s_inc} : contains(e, d)
CapsRatioAbove03(t) ==
    Len(t) > 0 /\ 10 * Cardinality({i \in 1..Len(t) : t[i] \in UpperChars}) > 3 * Len(t)
DistinctKeywords(t) ==
    Cardinality({word \in professional_keywords : contains(lower(t), word)})

\* An input on which every penalty of the subject sub-scorer applies, and
\* one on which every bonus applies
SubjectAllNegative ==
    /\ BlankSubject(call.subject) \/ Len(call.subject) < 5 \/ Len(call.subject) > 100
    /\ Len(call.name) <= 3
    /\ Malformed(call.email)
SubjectAllPositive ==
    /\ ~BlankSubject(call.subject) /\ HasProfessionalWord(call.subject)
    /\ Len(call.subject) \in 5..100
    /\ Len(call.name) > 3
    /\ Webmail(call.email) \/ Corporate(call.email)
    /\ ~Malformed(call.email)
\* The same for the content sub-scorer
ContentAllNegative ==
    /\ call.word_count = Len(split(call.text))
    /\ call.word_count < 20 \/ call.word_count > 500
    /\ CapsRatioAbove03(call.text)
    /\ count(call.text, "!") > 5
    /\ count(call.text, "?") <= 2
    /\ DistinctKeywords(call.text) < 3
ContentAllPositive ==
    /\ call.word_count = Len(split(call.text))
    /\ call.word_count \in 20..500
    /\ ~CapsRatioAbove03(call.text)
    /\ count(call.text, "?") > 2
    /\ count(call.text, "!") <= 5
    /\ DistinctKeywords(call.text) >= 3

C16_KeywordBonusWhateverLength ==
    (/\ Returned("calculate_subject_confidence_boost")
     /\ ~BlankSubject(call.subject)
     /\ HasProfessionalWord(call.subject))
        => obs.shown = 100 + 15
                       + (IF Len(call.subject) < 5 THEN -10
                          ELSE IF Len(call.subject) > 100 THEN -5 ELSE 0)
                       + name_adjustment(call.name) + email_adjustment(call.email)

\* C17: the sender-email contribution is the sum of every adjustment whose
\* condition holds: -0.15 when the address lacks "@" or ".", +0.05 when it
\* contains gmail.com, hotmail.com or yahoo.com, +0.20 when it contains
\* empresa, company, corp or inc; an address with a webmail domain and a
\* corporate indicator receives +0.25.  The contributions of the subject and
\* of the name are taken as computed.
C17_EmailAdjustmentsAdd ==
    (Returned("calculate_subject_confidence_boost") /\ call.email # <<>>)
        => obs.shown = 100 + subject_adjustment(call.subject) + name_adjustment(call.name)
                       + (IF Malformed(call.email) THEN -15 ELSE 0)
                       + (IF Webmail(call.email) THEN 5 ELSE 0)
                       + (IF Corporate(call.email) THEN 20 ELSE 0)

\* The calls of Scenario D: blank subject and malformed email
ScenarioD ==
    /\ Returned("calculate_subject_confidence_boost")
    /\ BlankSubject(call.subject)
    /\ Malformed(call.email)

\* The same call without the sender name
WithoutName ==
    calculate_subject_confidence_boost_binary64(call.subject, <<>>, call.email)

\* Floats that differ by at most 2^-52
Close(a, b) ==
    IF big_lt(a, b) THEN ~big_lt(<<256, 0, 0, 0>>, big_sub(b, a))
    ELSE ~big_lt(<<256, 0, 0, 0>>, big_sub(a, b))

\* C18 (as stated): for a blank subject, a sender name that is absent or of
\* at most 3 characters and a non-empty email without "@" or ".", the subject
\* sub-scorer returns exactly 0.80, and a sender name longer than 3 characters
\* raises the result by exactly 0.10.
C18_ScenarioDExact ==
    /\ (ScenarioD /\ Len(call.name) <= 3) => ret.boost = float_literal(80)
    /\ (ScenarioD /\ Len(call.name) > 3)
         => float_sub(ret.boost, WithoutName) = float_literal(10)

\* C18 (amended): the penalties accumulate without being altered by the
\* clamp, in float arithmetic: for a blank subject, a name absent or of at
\* most 3 characters and a malformed email the function returns the float
\* (1.0 - 0.05) - 0.15, which is 0.7999999999999999, one unit in the last
\* place below 0.80, and is shown as 0.80; with a name longer than 3
\* characters it returns 0.9, a rise of 0.10 to within 2^-52.
C18_ScenarioDRounded ==
    /\ (ScenarioD /\ Len(call.name) <= 3)
         => /\ ret.boost = float_sub(float_sub(float_literal(100), float_literal(5)),
                                      float_literal(15))
            /\ big_add(ret.boost, <<128, 0, 0, 0>>) = float_literal(80)
            /\ obs.shown = 80
    /\ (ScenarioD /\ Len(call.name) > 3)
         => /\ ret.boost = float_literal(90)
            /\ obs.shown = 90
            /\ Close(float_sub(ret.boost, WithoutName), float_literal(10))

\* C18 witness: Scenario D itself (subject "", name "", email "notanemail")
\* returned a float that is shown as 0.80 and is not the float 0.80.
C18_Witness ==
    /\ Returned("calculate_subject_confidence_boost")
    /\ call.subject = <<>> /\ call.name = <<>> /\ call.email = t_notanemail
    /\ obs.shown = 80
    /\ ret.boost # float_literal(80)

\* The terms of the content sub-score as C19 states them, in hundredths
TermL == IF call.word_count < 20 THEN -15 ELSE IF call.word_count > 500 THEN -5 ELSE 5
TermC == IF CapsRatioAbove03(call.text) THEN -20 ELSE 0
TermQ == IF count(call.text, "?") > 2 THEN 10 ELSE 0
TermE == IF count(call.text, "!") > 5 THEN -10 ELSE 0
TermK == IF DistinctKeywords(call.text) >= 3 THEN 15 ELSE 0

\* A call of the content sub-scorer with a body and the body's word count
ContentCall ==
    /\ Returned("calculate_content_confidence_boost")
    /\ call.word_count = Len(split(call.text))

\* The body is all capitals, and differs from its lower-case control
AllCapsBody ==
    /\ call.text = upper(call.text)
    /\ call.text # lower(call.text)
    /\ CapsRatioAbove03(call.text)

\* What the function returns for the control: the same body in lower case
Control == calculate_content_confidence_boost_binary64(lower(call.text), call.word_count)

\* C19 (as stated): the content sub-scorer returns clamp(1.0 + L + C + Q + E
\* + K, 0.5, 1.5), L = -0.15 for fewer than 20 words, -0.05 for more than
\* 500, else +0.05; C = -0.20 iff uppercase characters / characters > 0.3;
\* Q = +0.10 iff more than 2 question marks; E = -0.10 iff more than 5
\* exclamation marks; K = +0.15 iff at least 3 distinct professional keywords
\* occur in the lower-cased body; and an all-capitals body scores exactly
\* 0.20 lower than its mixed-case control (control - 0.20 = score, or score
\* + 0.20 = control, or control - score = 0.20).
C19_ContentFormulaExact ==
    ContentCall
        => /\ obs.escaped = "none"
           /\ obs.shown = clamp(100 + TermL + TermC + TermQ + TermE + TermK, 50, 150)
           /\ AllCapsBody
                => \/ float_sub(Control, ret.boost) = float_literal(20)
                   \/ float_sub(Control, float_literal(20)) = ret.boost
                   \/ float_add(ret.boost, float_literal(20)) = Control

\* C19 (amended): the content sub-scorer returns the float clamp(((((1.0 + L)
\* + C) + Q) + E) + K, 0.5, 1.5) with the terms as stated, which to two
\* decimals is 1.0 + L + C + Q + E + K; an all-capitals body scores 0.20
\* lower than its lower-case control to within 2^-52, and exactly 0.20 lower
\* to two decimals.
C19_ContentFormulaRounded ==
    ContentCall
        => /\ obs.escaped = "none"
           /\ ret.boost =
                float_clamp(adjust(adjust(adjust(adjust(adjust(float_literal(100), TermL),
                                                        TermC), TermQ), TermE), TermK),
                            float_literal(50), float_literal(150))
           /\ obs.shown = clamp(100 + TermL + TermC + TermQ + TermE + TermK, 50, 150)
           /\ AllCapsBody
                => /\ Close(float_sub(Control, ret.boost), float_literal(20))
                   /\ format_boost_2f(Control) - obs.shown = 20

\* C19 witness: an all-capitals body of 20 words with 2 question marks and 6
\* exclamation marks was scored 0.75 to two decimals, its control 0.95, and
\* the two floats do not differ by the float 0.20.
C19_Witness ==
    /\ ContentCall
    /\ AllCapsBody
    /\ call.word_count = 20
    /\ count(call.text, "?") = 2 /\ count(call.text, "!") = 6
    /\ obs.shown = 75
    /\ format_boost_2f(Control) = 95
    /\ float_sub(Control, ret.boost) # float_literal(20)

\* The whitespace-separated words of the input of a preprocess_text call, in
\* lower case
InputWords == split(lower(call.text))

\* C20: preprocess_text does not fail on empty input and keeps its counts
\* consistent: for an empty or whitespace-only string it returns clean_text
\* "", token_count 0 and word_count 0; for every input word_count is the
\* number of whitespace-separated words of the input, token_count the number
\* of those words that are neither stop words nor of length <= 2, and
\* 0 <= token_count <= word_count.
C20_PreprocessCounts ==
    Returned("preprocess_text")
        => /\ IsWhitespaceOnly(call.text)
                => /\ ret.clean_text = <<>>
                   /\ ret.token_count = 0
                   /\ ret.word_count = 0
           /\ ret.word_count = Len(split(call.text))
           /\ ret.token_count =
                Cardinality({i \in 1..Len(InputWords) :
                               InputWords[i] \notin _stop_words /\ Len(InputWords[i]) > 2})
           /\ 0 <= ret.token_count /\ ret.token_count <= ret.word_count

\* C20 witness: " De A  PARA o ERRO oi abc\n" was normalised: 7 words, of which
\* 2 are kept (3 are stop words, 1 has two characters, and "PARA" is a stop
\* word once in lower case).
C20_Witness ==
    /\ Returned("preprocess_text")
    /\ call.text = t_mixed
    /\ ret.word_count = 7
    /\ ret.token_count = 2
    /\ ret.clean_text = <<"e","r","r","o"," ","a","b","c">>

-----------------------------------------------------------------------------
(* Concurrent requests are independent *)

\* What classify_text returns for the request served alone
AloneClassification(req, pl) ==
    LET text == IF req.file.kind = "content" THEN req.file.text ELSE strip(req.text)
        answers == classify_text(preprocess_text(text).clean_text, pl)
    IN  { [category |-> c.category, score |-> c.score] :
            c \in {d \in answers : d.model \in {req.model, NoModelAnswer}} }

\* The (category, score) rendered for the request served alone: process() of
\* the sequential specification, where the trained model answers as it does
\* for this request
AloneResult(req, pl, client) ==
    LET answers == process(req.text, req.file, req.email, req.name, req.subject, pl, client)
        mine == {a \in answers : a.raw = NoRaw \/ a.raw \in AloneClassification(req, pl)}
    IN  { [category |-> a.value.category, score |-> a.value.score] : a \in mine }

\* C21: request handling leaves the module's pipeline and genai_client as they
\* were set at import, and under every interleaving of two simultaneous
\* requests the pair classify_text returns to a request and the (category,
\* score) rendered for it are the ones the request gets when it is served alone.
C21_ConcurrentRequestsIndependent ==
    /\ pipeline = call.pipeline
    /\ genai_client = call.genai_client
    /\ \A i \in Threads :
         /\ pc[i] = "classified" =>
              AloneClassification(call.requests[i], call.pipeline) = {obs[i].raw}
         /\ pc[i] = "done" =>
              AloneResult(call.requests[i], call.pipeline, call.genai_client)
                = {[category |-> ret[i].category, score |-> ret[i].score]}

\* Two requests, both served while the other was inside its handler, one
\* classified by the trained model and the other by the heuristic after the
\* model failed, with different results
C21_Witness ==
    /\ pc = <<"done", "done">>
    /\ obs[1].overlapped /\ obs[2].overlapped
    /\ pipeline = "Pipeline"
    /\ genai_client = "Client"
    /\ call.requests[1].model.raises = "predict"
    /\ call.requests[2].model.raises = "none"
    /\ ret[1].status = 200 /\ ret[2].status = 200
    /\ ret[1].category # ret[2].category
    /\ ret[1].score # ret[2].score

-----------------------------------------------------------------------------
(* The template reply *)

Descriptors == {"é bastante breve", "é concisa", "é detalhada", "é muito completa"}

\* The characters of a descriptor
DescriptorText(d) ==
    IF d = "é bastante breve"
    THEN <<"é"," ","b","a","s","t","a","n","t","e"," ","b","r","e","v","e">>
    ELSE IF d = "é concisa" THEN <<"é"," ","c","o","n","c","i","s","a">>
    ELSE IF d = "é detalhada" THEN <<"é"," ","d","e","t","a","l","h","a","d","a">>
    ELSE <<"é"," ","m","u","i","t","o"," ","c","o","m","p","l","e","t","a">>

\* The descriptor of a body of n words
Band(n) ==
    IF n < 30 THEN "é bastante breve"
    ELSE IF n < 80 THEN "é concisa"
    ELSE IF n < 200 THEN "é detalhada"
    ELSE "é muito completa"

t_None == <<"N","o","n","e">>
Absent(value) == value = <<>> \/ value = PyNone
BodyWords(email_text) == IF Absent(email_text) THEN 0 ELSE Len(split(email_text))

\* The descriptors the template itself wrote into the reply
Written(reply) == {i \in 1..Len(reply) : reply[i] \in Descriptors}
\* The descriptors found anywhere in the text of the reply
Appearing(reply) ==
    {d \in Descriptors : (\E i \in 1..Len(reply) : reply[i] = d) \/ contains(reply, DescriptorText(d))}
\* Whether the values interpolated into the reply carry the text "None"
GivenNone(user_name, user_subject, email_text) ==
    \/ ~Absent(user_name) /\ contains(user_name, t_None)
    \/ ~Absent(user_subject) /\ contains(user_subject, t_None)
    \/ ~Absent(email_text) /\ contains(prefix(email_text, 50), t_None)

\* C22 as stated: the template reply for a body of n words carries exactly one
\* descriptor when the category is Produtivo, the one of the band of n (brief
\* below 30, concise below 80, detailed below 200, thorough from 200 on); it
\* begins with "Prezado(a)"; and it does not contain the text "None" when the
\* name or the subject is absent.
C22_TemplateAsStated ==
    Returned("_get_template_reply") =>
        /\ call.category = "Produtivo" => Appearing(ret.reply) = {Band(BodyWords(call.text))}
        /\ ret.reply[1] = "Prezado(a)"
        /\ Absent(call.name) \/ Absent(call.subject) => ~contains(ret.reply, t_None)

\* C22, amended: when the category is Produtivo the template writes exactly one
\* descriptor, the one of the band of n, and no other descriptor appears in the
\* reply unless the quoted body preview, name or subject contains it; the reply
\* begins with "Prezado(a)"; and when the name or the subject is absent the
\* reply contains the text "None" only if the body preview, the name or the
\* subject given contains it.
C22_TemplateDescriptor ==
    Returned("_get_template_reply") =>
        LET n == BodyWords(call.text)
            quoted == (IF Absent(call.name) THEN <<>> ELSE call.name) \o <<"|">>
                      \o (IF Absent(call.subject) THEN <<>> ELSE call.subject) \o <<"|">>
                      \o (IF Absent(call.text) THEN <<>> ELSE prefix(call.text, 50))
        IN  /\ call.category = "Produtivo" =>
                 /\ Cardinality(Written(ret.reply)) = 1
                 /\ \A i \in Written(ret.reply) : ret.reply[i] = Band(n)
                 /\ \A d \in Appearing(ret.reply) :
                      d = Band(n) \/ contains(quoted, DescriptorText(d))
            /\ ret.reply[1] = "Prezado(a)"
            /\ Absent(call.name) \/ Absent(call.subject) =>
                 (contains(ret.reply, t_None)
                    => GivenNone(call.name, call.subject, call.text))

\* A Produtivo template reply for a body of exactly 200 words, with None as
\* name and no subject
C22_Witness ==
    /\ Returned("_get_template_reply")
    /\ call.category = "Produtivo"
    /\ BodyWords(call.text) = 200
    /\ call.name = PyNone
    /\ call.subject = <<>>
    /\ \E i \in 1..Len(ret.reply) : ret.reply[i] = "é muito completa"

-----------------------------------------------------------------------------
(* The heuristic score is monotone *)

\* The results classify_text gives without the model's answer (the blank and
\* short-text returns, and the heuristic with no model or after a failed model
\* call) for the texts drawn, each with the word count and the number of
\* keyword tokens of its text
HeuristicRuns ==
    UNION { { [w |-> Len(split(t)), k |-> KeywordTokens(t), category |-> r.category,
               score |-> r.score] :
                r \in {x \in classify_text(t, pl) : x.path \in {"empty", "short", "heuristic"}} } :
            t \in CleanTexts, pl \in load_model }

\* C23: a result classify_text returns without the model's answer has a score
\* no higher than that of any such result for a text with the same number of
\* keyword tokens and at least as many words, and no higher than that of any
\* such result for a text with the same number of words and at least as many
\* keyword tokens; if it is Produtivo its score is at least 0.50, and if it is
\* Improdutivo its score is at most 0.60.
C23_HeuristicMonotone ==
    (Returned("classify_text") /\ obs.path \in {"empty", "short", "heuristic"}) =>
        LET w == Len(split(call.text))
            k == KeywordTokens(call.text)
        IN  /\ \A h \in HeuristicRuns :
                 /\ (h.k = k /\ h.w >= w) => h.score >= ret.score
                 /\ (h.w = w /\ h.k >= k) => h.score >= ret.score
            /\ ret.category = "Produtivo" => ret.score >= 50 * Cent
            /\ ret.category = "Improdutivo" => ret.score <= 60 * Cent
            /\ ret.category \in {"Produtivo", "Improdutivo"}

\* The model was loaded and its call failed; the heuristic classified a text
\* of 50 to 99 words with one keyword token as Produtivo with 0.60, above the
\* score for the same words with no keyword and below the score for more words
\* with one keyword
C23_Witness ==
    /\ Returned("classify_text")
    /\ pipeline = "Pipeline"
    /\ obs.path = "heuristic"
    /\ Len(split(call.text)) \in 50..99
    /\ KeywordTokens(call.text) = 1
    /\ ret = [category |-> "Produtivo", score |-> 60 * Cent]
    /\ \E h \in HeuristicRuns :
         h.w = Len(split(call.text)) /\ h.k = 0 /\ h.score < ret.score
    /\ \E h \in HeuristicRuns : h.w >= 100 /\ h.k = 1 /\ h.score > ret.score

====
